---- MODULE Spec2Model ----
(***************************************************************************)
(* SkyOrchardGame (src/game.js): the session engine of a timed             *)
(* "catch the orb" game.  The browser's timers are modelled as sets of     *)
(* armed handles whose callbacks may run in any order; the DOM play area   *)
(* is the set of orbs whose `connected` field is TRUE.                     *)
(***************************************************************************)
EXTENDS Integers, Sequences, FiniteSets, TLC

VARIABLES
  score,          \* this.score
  timeLeft,       \* this.timeLeft
  isRunning,      \* this.isRunning
  orbId,          \* this.orbId, the id of the last orb created
  spawnTimeout,   \* this.spawnTimeout: a handle, or NULL
  timerInterval,  \* this.timerInterval: a handle, or NULL
  orbs,           \* every orb element created so far, by dataset.id
  timeouts,       \* the armed spawn timeouts, by handle: the runs of the callback so far
  intervals,      \* the armed handles created by window.setInterval
  visibility,     \* document.visibilityState
  scoreEl,        \* scoreEl.textContent, as a sequence of characters
  timerEl,        \* timerEl.textContent, as a sequence of characters
  clock,          \* the time in ms and the due time of every armed timer (timed specifications)
  lastRoll,       \* the last value of Math.random() in pickOrbType, in hundredths (PickSpec)
  paused,         \* history: pause() took effect and no resume()/start()/finish() ran since
  finishCount,    \* history: the number of finish() runs since the last start()
  feedback        \* the haptic request made by the last handler, "none" if it made none

vars == <<score, timeLeft, isRunning, orbId, spawnTimeout, timerInterval, orbs,
          timeouts, intervals, visibility, scoreEl, timerEl, clock, lastRoll, paused, finishCount,
          feedback>>

----------------------------------------------------------------------------
(* Program constants *)

GAME_DURATION == 60

\* weights in hundredths; extraTime 0 stands for an absent (falsy) extraTime
ORB_TYPES == <<[name |-> "common", weight |-> 70, score |-> 1, extraTime |-> 0],
               [name |-> "rare",   weight |-> 20, score |-> 3, extraTime |-> 0],
               [name |-> "bonus",  weight |-> 10, score |-> 5, extraTime |-> 2]>>

NULL == 0

ORB_LIFETIME == 2200

SPAWN_CONFIG == <<[threshold |-> 0,  interval |-> 1200],
                  [threshold |-> 20, interval |-> 900],
                  [threshold |-> 40, interval |-> 750],
                  [threshold |-> 55, interval |-> 600]>>

\* the period of the tick interval and the delay of the removal timeout, in ms
TICK_PERIOD == 1000
REMOVAL_DELAY == 220

(* Bounds of the model *)

\* orbs created over the whole run (every spawnLoop run creates one)
MaxOrbs == 2
\* ticks that orphaned intervals may still deliver below timeLeft = 0
MaxOverrun == 1

\* the latest due time, in ms, at which the timed specifications fire a timer
MaxTime == 3000
\* the scores a session is taken up at in DelaySpec
MaxScore == 60
\* the rolls of PickSpec, in hundredths.  Math.random() is below 1: the rolls
\* 100 and above exercise the last test of the scan and its fallback
MaxRoll == 101

\* Math.random() * 220 - 110 lies in [-110, 110): its least, middle and
\* greatest whole number of ms
Jitters == {-110, 0, 109}

\* Math.random() * 600 lies in [0, 600): its least and greatest whole number
LifetimeExtras == {0, 599}

\* values of Math.random() in pickOrbType, in hundredths: one roll that
\* selects the first catalog entry and one that selects the last
Rolls == {0, 99}

----------------------------------------------------------------------------
(* Pure helpers *)

Min(a, b) == IF a <= b THEN a ELSE b

Max(a, b) == IF a >= b THEN a ELSE b

DIGITS == <<"0", "1", "2", "3", "4", "5", "6", "7", "8", "9">>

\* Number.prototype.toString() of a whole number: its decimal digits, most
\* significant first, after a minus sign if it is negative
RECURSIVE toString(_)
toString(n) ==
  IF n < 0 THEN <<"-">> \o toString(-n)
  ELSE IF n < 10 THEN <<DIGITS[n + 1]>>
  ELSE toString(n \div 10) \o toString(n % 10)

\* updateScore(value): the text written to scoreEl
updateScore(value) == toString(value)

\* updateTimer(value): the text written to timerEl.  timeLeft is a whole
\* number of seconds in every state (60, one less per tick, two more per
\* bonus), and Math.ceil leaves a whole number as it is.
updateTimer(value) == toString(Max(0, value))

\* (variant: the scan compares with < instead of <=)
RECURSIVE PickScan_Strict(_, _, _)
PickScan_Strict(roll, i, cumulative) ==
  IF i > Len(ORB_TYPES) THEN ORB_TYPES[1]
  ELSE IF roll < cumulative + ORB_TYPES[i].weight THEN ORB_TYPES[i]
  ELSE PickScan_Strict(roll, i + 1, cumulative + ORB_TYPES[i].weight)

RECURSIVE PickScan(_, _, _)
PickScan(roll, i, cumulative) ==
  IF i > Len(ORB_TYPES) THEN ORB_TYPES[1]
  ELSE IF roll <= cumulative + ORB_TYPES[i].weight THEN ORB_TYPES[i]
  ELSE PickScan(roll, i + 1, cumulative + ORB_TYPES[i].weight)

pickOrbType(roll) == PickScan(roll, 1, 0)

\* ORB_TYPES.find((t) => t.name === name) ?? ORB_TYPES[0]
FindType(name) ==
  IF \E i \in 1..Len(ORB_TYPES) : ORB_TYPES[i].name = name
  THEN ORB_TYPES[CHOOSE i \in 1..Len(ORB_TYPES) :
                   /\ ORB_TYPES[i].name = name
                   /\ \A j \in 1..(i - 1) : ORB_TYPES[j].name # name]
  ELSE ORB_TYPES[1]

\* window.clearTimeout(h): the timeout, if still armed, is discarded
ClearTimeout(ts, h) == [k \in (DOMAIN ts) \ {h} |-> ts[k]]

\* window.clearInterval(h)
ClearInterval(is, h) == is \ {h}

\* dataset.type is read by handleOrbTap only, for an orb in the play area
\* that is not yet captured: the model keeps it no longer than that
NoType == ""

\* the orb element spawnOrb creates and appends to the play area
NewOrb(type) ==
  [type      |-> type.name,   \* dataset.type
   captured  |-> FALSE,       \* dataset.captured === 'true'
   connected |-> TRUE,        \* isConnected: the element is in the play area
   expiry    |-> TRUE,        \* its expiry timeout is armed
   removal   |-> FALSE,       \* its post-capture removal timeout is armed
   collects     |-> 0,        \* history: times collectOrb ran for it
   expiryFires  |-> 0,        \* history: times its expiry callback ran
   expired      |-> FALSE]    \* history: removed by its expiry callback

\* (variant: only the orbs not yet collected are removed)
RemoveAll_UncapturedOnly(os) ==
  [o \in DOMAIN os |->
     IF os[o].captured THEN os[o] ELSE [os[o] EXCEPT !.connected = FALSE, !.type = NoType]]

\* area.querySelectorAll('.orb').forEach((orb) => orb.remove())
RemoveAll(os) ==
  [o \in DOMAIN os |-> [os[o] EXCEPT !.connected = FALSE, !.type = NoType]]

\* spawnLoop's body once isRunning was found true: spawnOrb, then re-arm
SpawnOrb(os, id, roll) ==
  [o \in (DOMAIN os) \cup {id} |-> IF o = id THEN NewOrb(pickOrbType(roll)) ELSE os[o]]

\* An orb element that is detached from the play area and that no armed
\* timeout's closure refers to is unreachable: nothing can act on it again.
Collect(os) ==
  [o \in {x \in DOMAIN os : os[x].connected \/ os[x].expiry \/ os[x].removal} |-> os[o]]

\* window.setTimeout: a timeout armed under the fresh handle h
ArmTimeout(ts, h) == [k \in (DOMAIN ts) \cup {h} |-> IF k = h THEN 0 ELSE ts[k]]

\* (variant: a threshold equal to the score is not yet reached)
RECURSIVE SpawnConfigReduce_Strict(_, _, _)
SpawnConfigReduce_Strict(s, i, acc) ==
  IF i > Len(SPAWN_CONFIG) THEN acc
  ELSE SpawnConfigReduce_Strict(s, i + 1,
         IF s > SPAWN_CONFIG[i].threshold THEN SPAWN_CONFIG[i] ELSE acc)

\* SPAWN_CONFIG.reduce((acc, cfg) => (score >= cfg.threshold ? cfg : acc), SPAWN_CONFIG[0])
RECURSIVE SpawnConfigReduce(_, _, _)
SpawnConfigReduce(s, i, acc) ==
  IF i > Len(SPAWN_CONFIG) THEN acc
  ELSE SpawnConfigReduce(s, i + 1,
         IF s >= SPAWN_CONFIG[i].threshold THEN SPAWN_CONFIG[i] ELSE acc)

\* spawnLoop: the delay of the next spawn, in whole ms
spawnDelay(s, jitter) ==
  Max(320, SpawnConfigReduce(s, 1, SPAWN_CONFIG[1]).interval + jitter)

\* (variant: the base lifetime is left out)
orbLifetime_NoBase(extra) == extra

\* spawnOrb: the lifetime of the new orb, in whole ms
orbLifetime(extra) == ORB_LIFETIME + extra

\* no roll observed yet
NoRoll == -1

\* the clock at page load: time 0, no timer armed
NoClock == [now |-> 0, spawn |-> <<>>, tick |-> <<>>, expiry |-> <<>>, removal |-> <<>>]

----------------------------------------------------------------------------
Init ==
  /\ score = 0
  /\ timeLeft = GAME_DURATION
  /\ spawnTimeout = NULL
  /\ timerInterval = NULL
  /\ orbId = 0
  /\ isRunning = FALSE
  /\ orbs = <<>>
  /\ timeouts = <<>>
  /\ intervals = {}
  /\ visibility \in {"visible", "hidden"}
  /\ scoreEl = <<>>
  /\ timerEl = <<>>
  /\ clock = NoClock
  /\ lastRoll = NoRoll
  /\ paused = FALSE
  /\ finishCount = 0
  /\ feedback = "none"

(* Fragments shared by the handlers *)

\* window.setTimeout / window.setInterval return a handle never returned
\* before.  Every call site runs in a handler that creates one orb, so the
\* fresh handles are named after the orb about to be created.
TimeoutHandle == 2 * (orbId + 1)
IntervalHandle == 2 * (orbId + 1) + 1

\* every handle the bounded run can hand out
Handles == 2..(2 * MaxOrbs + 1)

\* spawnLoop() past its isRunning guard: spawnOrb(), then arm the next run
\* with the fresh handle h and keep the handle in this.spawnTimeout
spawnLoop(os, ts, h, roll) ==
  /\ orbs' = Collect(SpawnOrb(os, orbId + 1, roll))
  /\ orbId' = orbId + 1
  /\ timeouts' = ArmTimeout(ts, h)
  /\ spawnTimeout' = h

\* startTimer(): arm a tick interval with the fresh handle h
startTimer(is, h) ==
  /\ intervals' = is \cup {h}
  /\ timerInterval' = h

\* (variant: the captured flag is not consulted)
TapTaken_NoLatch(running, orb) == running

\* (variant: the running flag is not consulted)
TapTaken_IgnoreRunning(running, orb) == ~orb.captured

\* handleOrbTap's guard: the tap is taken only while running, on an orb not yet captured
TapTaken(running, orb) == running /\ ~orb.captured

\* (variant: every orb counts one point)
collectScore_Unit(s, type) == s + 1

\* incrementScore: this.score after the award
collectScore(s, type) == s + type.score

\* (variant: the grant is not clamped)
collectTime_NoClamp(t, type) == t + type.extraTime

\* collectOrb: this.timeLeft after the extra-time grant
collectTime(t, type) ==
  IF type.extraTime # 0 THEN Min(GAME_DURATION, t + type.extraTime) ELSE t

\* (variant: the timer text is not refreshed after the grant)
collectTimerEl_Stale(el, t, type) == el

\* collectOrb: timerEl after the extra-time grant, refreshed only if the type grants time
collectTimerEl(el, t, type) == IF type.extraTime # 0 THEN updateTimer(t) ELSE el

\* collectOrb: the impact style requested
collectImpact(type) == IF type.name = "bonus" THEN "heavy" ELSE "medium"

\* (variant: the captured flag is not consulted)
RemoveTaken_IgnoreCaptured(orb) == orb.connected

\* (variant: the isConnected guard is missing)
RemoveTaken_IgnoreConnected(orb) == ~orb.captured

\* (variant: the captured test is inverted)
RemoveTaken_OnlyCaptured(orb) == orb.connected /\ orb.captured

\* removeOrb's guards: the element is removed only if connected and not captured
RemoveTaken(orb) == orb.connected /\ ~orb.captured

\* (variant: the callback is delivered periodically, as by setInterval)
FireTimeout_Periodic(ts, h) == [ts EXCEPT ![h] = @ + 1]

\* a timeout's callback starts to run: setTimeout delivers it once and
\* discards the timeout
FireTimeout(ts, h) == [k \in (DOMAIN ts) \ {h} |-> ts[k]]

\* an orb's expiry timeout starts to run removeOrb(orb, true)
FireExpiry(orb) ==
  [orb EXCEPT !.expiry = FALSE, !.expiryFires = orb.expiryFires + 1]

----------------------------------------------------------------------------
(* The handlers *)

\* start(): resetState(); isRunning = true; spawnLoop(); startTimer(); notification('success')
Start ==
  /\ orbId < MaxOrbs
  /\ score' = 0
  /\ timeLeft' = GAME_DURATION
  /\ isRunning' = TRUE
  /\ \E roll \in Rolls :
       spawnLoop(RemoveAll(orbs), ClearTimeout(timeouts, spawnTimeout), TimeoutHandle, roll)
  /\ startTimer(ClearInterval(intervals, timerInterval), IntervalHandle)
  /\ paused' = FALSE
  /\ finishCount' = 0
  /\ scoreEl' = updateScore(0)
  /\ timerEl' = updateTimer(GAME_DURATION)
  /\ feedback' = "success"
  /\ UNCHANGED visibility

\* pause(), as called by handleVisibilityChange when the document became hidden
Pause ==
  /\ IF isRunning
     THEN /\ timeouts' = ClearTimeout(timeouts, spawnTimeout)
          /\ intervals' = ClearInterval(intervals, timerInterval)
          /\ spawnTimeout' = NULL
          /\ timerInterval' = NULL
          /\ paused' = TRUE
     ELSE UNCHANGED <<timeouts, intervals, spawnTimeout, timerInterval, paused>>
  /\ feedback' = "none"
  /\ UNCHANGED <<score, timeLeft, isRunning, orbId, orbs, scoreEl, timerEl, finishCount>>

\* resume(), as called by handleVisibilityChange when the document became visible
Resume ==
  /\ IF isRunning
     THEN /\ orbId < MaxOrbs
          /\ \E roll \in Rolls : spawnLoop(orbs, timeouts, TimeoutHandle, roll)
          /\ startTimer(intervals, IntervalHandle)
          /\ paused' = FALSE
     ELSE UNCHANGED <<orbs, orbId, timeouts, spawnTimeout, intervals, timerInterval, paused>>
  /\ feedback' = "none"
  /\ UNCHANGED <<score, timeLeft, isRunning, scoreEl, timerEl, finishCount>>

\* visibilitychange to hidden: handleVisibilityChange calls pause()
VisibilityHidden ==
  /\ visibility = "visible"
  /\ visibility' = "hidden"
  /\ Pause

\* visibilitychange to visible: handleVisibilityChange calls resume() if isRunning
VisibilityVisible ==
  /\ visibility = "hidden"
  /\ visibility' = "visible"
  /\ IF isRunning
     THEN Resume
     ELSE /\ feedback' = "none"
          /\ UNCHANGED <<score, timeLeft, isRunning, orbId, spawnTimeout, timerInterval,
                         orbs, timeouts, intervals, scoreEl, timerEl, paused, finishCount>>

\* pointerdown on orb o of the play area: handleOrbTap, collectOrb
Tap(o) ==
  /\ o \in DOMAIN orbs
  /\ orbs[o].connected
  /\ IF TapTaken(isRunning, orbs[o])
     THEN LET type == FindType(orbs[o].type) IN
          /\ score' = collectScore(score, type)
          /\ timeLeft' = collectTime(timeLeft, type)
          /\ orbs' = [orbs EXCEPT ![o] =
                        [@ EXCEPT !.captured = TRUE,
                                  !.type = NoType,
                                  !.removal = TRUE,
                                  !.collects = @ + 1]]
          /\ scoreEl' = updateScore(collectScore(score, type))
          /\ timerEl' = collectTimerEl(timerEl, collectTime(timeLeft, type), type)
          /\ feedback' = collectImpact(type)
     ELSE /\ feedback' = "none"
          /\ UNCHANGED <<score, timeLeft, orbs, scoreEl, timerEl>>
  /\ UNCHANGED <<isRunning, orbId, spawnTimeout, timerInterval, timeouts, intervals, visibility, paused, finishCount>>

\* finish(): stop both loops and request the success notification
finish ==
  /\ isRunning' = FALSE
  /\ timeouts' = ClearTimeout(timeouts, spawnTimeout)
  /\ intervals' = ClearInterval(intervals, timerInterval)
  /\ spawnTimeout' = NULL
  /\ timerInterval' = NULL
  /\ paused' = FALSE
  /\ finishCount' = finishCount + 1
  /\ feedback' = "success"

\* the tick callback of the armed interval h: timeLeft -= 1; finish() at timeLeft <= 0
Tick(h) ==
  /\ h \in intervals
  /\ timeLeft > -MaxOverrun
  /\ timeLeft' = timeLeft - 1
  /\ timerEl' = updateTimer(timeLeft - 1)
  /\ IF timeLeft - 1 <= 0
     THEN finish
     ELSE /\ feedback' = "none"
          /\ UNCHANGED <<isRunning, timeouts, intervals, spawnTimeout, timerInterval,
                         paused, finishCount>>
  /\ UNCHANGED <<score, orbId, orbs, visibility, scoreEl>>

\* the callback of the armed spawn timeout h: spawnLoop()
SpawnFire(h) ==
  /\ h \in DOMAIN timeouts
  /\ IF isRunning
     THEN /\ orbId < MaxOrbs
          /\ \E roll \in Rolls : spawnLoop(orbs, FireTimeout(timeouts, h), TimeoutHandle, roll)
     ELSE /\ timeouts' = FireTimeout(timeouts, h)
          /\ UNCHANGED <<orbs, orbId, spawnTimeout>>
  /\ feedback' = "none"
  /\ UNCHANGED <<score, timeLeft, isRunning, timerInterval, intervals, visibility,
                 scoreEl, timerEl, paused, finishCount>>

\* the expiry timeout of orb o: removeOrb(orb, true)
ExpiryFire(o) ==
  /\ o \in DOMAIN orbs
  /\ orbs[o].expiry
  /\ IF RemoveTaken(orbs[o])
     THEN /\ orbs' = Collect([orbs EXCEPT ![o] =
                        [FireExpiry(@) EXCEPT !.connected = FALSE, !.expired = TRUE]])
          /\ feedback' = IF isRunning THEN "light" ELSE "none"
     ELSE /\ orbs' = Collect([orbs EXCEPT ![o] = FireExpiry(@)])
          /\ feedback' = "none"
  /\ UNCHANGED <<score, timeLeft, isRunning, orbId, spawnTimeout, timerInterval,
                 timeouts, intervals, visibility, scoreEl, timerEl, paused, finishCount>>

\* the removal timeout collectOrb armed for orb o: orb.remove()
RemovalFire(o) ==
  /\ o \in DOMAIN orbs
  /\ orbs[o].removal
  /\ orbs' = Collect([orbs EXCEPT ![o] = [@ EXCEPT !.removal = FALSE, !.connected = FALSE]])
  /\ feedback' = "none"
  /\ UNCHANGED <<score, timeLeft, isRunning, orbId, spawnTimeout, timerInterval,
                 timeouts, intervals, visibility, scoreEl, timerEl, paused, finishCount>>

(* The handlers at unspecified times: the clock is not kept *)

untimed == <<clock, lastRoll>>

StartStep == Start /\ UNCHANGED untimed
VisibilityHiddenStep == VisibilityHidden /\ UNCHANGED untimed
VisibilityVisibleStep == VisibilityVisible /\ UNCHANGED untimed
TapStep(o) == Tap(o) /\ UNCHANGED untimed
TickStep(h) == Tick(h) /\ UNCHANGED untimed
SpawnFireStep(h) == SpawnFire(h) /\ UNCHANGED untimed
ExpiryFireStep(o) == ExpiryFire(o) /\ UNCHANGED untimed
RemovalFireStep(o) == RemovalFire(o) /\ UNCHANGED untimed

Next ==
  \/ StartStep
  \/ VisibilityHiddenStep
  \/ VisibilityVisibleStep
  \/ \E o \in 1..MaxOrbs : TapStep(o)
  \/ \E h \in Handles : TickStep(h)
  \/ \E h \in Handles : SpawnFireStep(h)
  \/ \E o \in 1..MaxOrbs : ExpiryFireStep(o)
  \/ \E o \in 1..MaxOrbs : RemovalFireStep(o)

Spec == Init /\ [][Next]_vars

\* A timeout the browser has armed is delivered after its delay, whatever the
\* page does meanwhile: the expiry and removal callbacks of every orb are
\* taken if they stay pending.
LiveSpec ==
  /\ Spec
  /\ \A o \in 1..MaxOrbs : WF_vars(ExpiryFireStep(o)) /\ WF_vars(RemovalFireStep(o))

----------------------------------------------------------------------------
(* The handlers in time, for a page the player does not touch (no tap is
   taken).  A timer callback runs at its due time, the timer due first running
   first; start() and visibility events are taken at the instants the model
   reaches. *)

\* the due times of all armed timers
DueTimes ==
  {clock.spawn[h] : h \in DOMAIN clock.spawn} \cup {clock.tick[h] : h \in DOMAIN clock.tick}
    \cup {clock.expiry[o] : o \in DOMAIN clock.expiry}
    \cup {clock.removal[o] : o \in DOMAIN clock.removal}

\* no armed timer is due before t
DueNext(t) == t <= MaxTime /\ \A d \in DueTimes : t <= d

\* The clock after a handler that ran at time t: timers it armed get their due
\* time (setTimeout / setInterval count from t), timers it cleared or that
\* fired are dropped, the interval that fired is due one period later.
Rearm(t, fired, jitter, extra) ==
  clock' =
    [now     |-> t,
     spawn   |-> [h \in DOMAIN timeouts' |->
                    IF h \in DOMAIN clock.spawn THEN clock.spawn[h]
                    ELSE t + spawnDelay(score', jitter)],
     tick    |-> [h \in intervals' |->
                    IF h \notin DOMAIN clock.tick THEN t + TICK_PERIOD
                    ELSE IF h = fired THEN clock.tick[h] + TICK_PERIOD
                    ELSE clock.tick[h]],
     expiry  |-> [o \in {x \in DOMAIN orbs' : orbs'[x].expiry} |->
                    IF o \in DOMAIN clock.expiry THEN clock.expiry[o]
                    ELSE t + orbLifetime(extra)],
     removal |-> [o \in {x \in DOMAIN orbs' : orbs'[x].removal} |->
                    IF o \in DOMAIN clock.removal THEN clock.removal[o]
                    ELSE t + REMOVAL_DELAY]]

StartAt ==
  /\ Start
  /\ \E jitter \in Jitters, extra \in LifetimeExtras : Rearm(clock.now, NULL, jitter, extra)
  /\ UNCHANGED lastRoll

VisibilityHiddenAt ==
  /\ VisibilityHidden
  /\ Rearm(clock.now, NULL, 0, 0)
  /\ UNCHANGED lastRoll

VisibilityVisibleAt ==
  /\ VisibilityVisible
  /\ \E jitter \in Jitters, extra \in LifetimeExtras : Rearm(clock.now, NULL, jitter, extra)
  /\ UNCHANGED lastRoll

TickAt(h) ==
  /\ h \in DOMAIN clock.tick
  /\ DueNext(clock.tick[h])
  /\ Tick(h)
  /\ Rearm(clock.tick[h], h, 0, 0)
  /\ UNCHANGED lastRoll

SpawnFireAt(h) ==
  /\ h \in DOMAIN clock.spawn
  /\ DueNext(clock.spawn[h])
  /\ SpawnFire(h)
  /\ \E jitter \in Jitters, extra \in LifetimeExtras : Rearm(clock.spawn[h], NULL, jitter, extra)
  /\ UNCHANGED lastRoll

ExpiryFireAt(o) ==
  /\ o \in DOMAIN clock.expiry
  /\ DueNext(clock.expiry[o])
  /\ ExpiryFire(o)
  /\ Rearm(clock.expiry[o], NULL, 0, 0)
  /\ UNCHANGED lastRoll

TimedNext ==
  \/ StartAt
  \/ VisibilityHiddenAt
  \/ VisibilityVisibleAt
  \/ \E h \in Handles : TickAt(h)
  \/ \E h \in Handles : SpawnFireAt(h)
  \/ \E o \in 1..MaxOrbs : ExpiryFireAt(o)

TimedSpec == Init /\ [][TimedNext]_vars

\* A running session taken up with any score s, at the moment (time 0) a run
\* of the spawn loop has spawned an orb and armed the next run; orb ids and
\* handles are counted from that orb.  Only the timers act.
DelayInit ==
  \E s \in 0..MaxScore, r \in Rolls, jitter \in Jitters, extra \in LifetimeExtras :
    /\ score = s
    /\ scoreEl = updateScore(s)
    /\ timeLeft = GAME_DURATION
    /\ timerEl = updateTimer(GAME_DURATION)
    /\ isRunning = TRUE
    /\ orbId = 1
    /\ orbs = SpawnOrb(<<>>, 1, r)
    /\ timeouts = ArmTimeout(<<>>, 2)
    /\ spawnTimeout = 2
    /\ intervals = {3}
    /\ timerInterval = 3
    /\ visibility = "visible"
    /\ clock = [now |-> 0,
                spawn |-> (2 :> spawnDelay(s, jitter)),
                tick |-> (3 :> TICK_PERIOD),
                expiry |-> (1 :> orbLifetime(extra)),
                removal |-> <<>>]
    /\ lastRoll = NoRoll
    /\ paused = FALSE
    /\ finishCount = 0
    /\ feedback = "none"

DelayNext ==
  \/ \E h \in Handles : TickAt(h)
  \/ \E h \in Handles : SpawnFireAt(h)
  \/ \E o \in 1..MaxOrbs : ExpiryFireAt(o)

DelaySpec == DelayInit /\ [][DelayNext]_vars

\* The spawn callback of the armed timeout h in a running session, with the
\* value r of Math.random() in pickOrbType given and observed.
SpawnFireRoll(h, r) ==
  /\ h \in DOMAIN timeouts
  /\ isRunning
  /\ orbId < MaxOrbs
  /\ spawnLoop(orbs, FireTimeout(timeouts, h), TimeoutHandle, r)
  /\ lastRoll' = r
  /\ feedback' = "none"
  /\ UNCHANGED <<score, timeLeft, isRunning, timerInterval, intervals, visibility,
                 scoreEl, timerEl, clock, paused, finishCount>>

PickNext ==
  \/ StartStep
  \/ \E h \in Handles, r \in 0..MaxRoll : SpawnFireRoll(h, r)

PickSpec == Init /\ [][PickNext]_vars

----------------------------------------------------------------------------
(* Observations of a step, used by the properties below *)

\* start() ran in this step: the only handler that requests the success
\* notification and leaves the session running
StartRan == feedback' = "success" /\ isRunning'

\* the expiry callback of orb o ran in this step
ExpiryRan(o) == orbs[o].expiry /\ (o \notin DOMAIN orbs' \/ ~orbs'[o].expiry)

\* the step is the run of a spawn timeout's callback
SpawnRan == \E h \in Handles : SpawnFire(h)

\* orb o is in the play area before / after the step
OnScreen(o) == o \in DOMAIN orbs /\ orbs[o].connected
OnScreenAfter(o) == o \in DOMAIN orbs' /\ orbs'[o].connected

\* the removal callback collectOrb armed for orb o ran in this step
RemovalRan(o) == orbs[o].removal /\ (o \notin DOMAIN orbs' \/ ~orbs'[o].removal)

\* the step is a pointerdown on an orb of the play area
TapRan == \E o \in 1..MaxOrbs : Tap(o)

\* the session status of the specification: Running excludes Paused
Running == isRunning /\ ~paused

\* orb o was captured by this step
CapturedNow(o) == OnScreen(o) /\ ~orbs[o].captured /\ o \in DOMAIN orbs' /\ orbs'[o].captured

----------------------------------------------------------------------------
(* C1..C10 *)

\* C1: within a session score never decreases, and it does not change in a
\* step taken while the session is paused or finished (a tap between pause()
\* and resume() included).
C1_ScoreFrozenUnlessRunning ==
  [][~StartRan =>
       /\ score' >= score
       /\ (paused \/ ~isRunning) => score' = score]_vars

\* C2: finish() runs once per session, and once it ran no tick callback and no
\* spawn callback runs and no orb is created until the next start().
C2_FinishedExactlyOnce ==
  [][/\ finishCount' <= 1
     /\ (finishCount >= 1 /\ ~StartRan) =>
          /\ finishCount' = finishCount
          /\ timeLeft' = timeLeft
          /\ ~SpawnRan
          /\ orbId' = orbId]_vars

\* C3: a visibility-visible event (resume()) that finds the session running
\* and not paused arms no interval and no spawn timeout, creates no orb and
\* leaves score and timeLeft unchanged.
C3_ResumeOnlyAfterPause ==
  [][(visibility = "hidden" /\ visibility' = "visible" /\ isRunning /\ ~paused) =>
       /\ intervals' = intervals
       /\ timeouts' = timeouts
       /\ orbId' = orbId
       /\ score' = score
       /\ timeLeft' = timeLeft]_vars

\* C4: in a step taken between pause() and the next resume() or start(), no
\* spawn callback creates an orb, no expiry callback runs, no orb leaves the
\* play area and no light feedback is requested.
C4_NothingFiresWhilePaused ==
  [][(paused /\ paused') =>
       /\ ~(SpawnRan /\ orbId' > orbId)
       /\ \A o \in DOMAIN orbs : ~ExpiryRan(o)
       /\ \A o \in DOMAIN orbs : (OnScreen(o) /\ ~orbs[o].captured) => OnScreenAfter(o)
       /\ feedback' # "light"]_vars

\* C5: no spawn timeout's callback and no orb's expiry callback has run more
\* than once, whatever pauses and resumes happened while it was pending.
C5_NoCallbackFiresTwice ==
  /\ \A h \in DOMAIN timeouts : timeouts[h] <= 1
  /\ \A o \in DOMAIN orbs : orbs[o].expiryFires <= 1

\* C5 witness: orbs o1 < o2 of one session are on screen; the interval in use
\* is the one resume() armed when it created o2 and no other is armed, so the
\* session's earlier timers were cancelled by pause(); o1's spawn timeout is
\* gone and its expiry callback has run once.
C5_Witness ==
  /\ isRunning /\ ~paused
  /\ intervals = {timerInterval}
  /\ \E o1, o2 \in DOMAIN orbs :
       /\ o1 < o2
       /\ orbs[o1].connected /\ orbs[o2].connected
       /\ timerInterval = 2 * o2 + 1
       /\ 2 * o1 \notin DOMAIN timeouts
       /\ orbs[o1].expiryFires = 1

\* C6: timeLeft never exceeds the session duration of 60.
C6_TimeLeftWithinDuration == timeLeft <= 60

\* C6 witness: a bonus orb was just captured and the grant was clamped at 60.
C6_Witness ==
  /\ feedback = "heavy"
  /\ timeLeft = 60
  /\ \E o \in DOMAIN orbs : orbs[o].captured /\ orbs[o].connected

\* C7: collectOrb never ran twice for an orb; score grows only in a step that
\* captures an uncaptured orb, by that orb's score; and while none of the
\* orbs on screen changes its captured flag, score and timeLeft do not grow
\* (a tap on a captured orb changes nothing).
C7_AwardedOncePerOrb ==
  [][/\ \A o \in DOMAIN orbs' : orbs'[o].collects <= 1
     /\ score' > score =>
          \E o \in DOMAIN orbs :
            CapturedNow(o) /\ score' = score + FindType(orbs[o].type).score
     /\ (~StartRan /\ \A o \in DOMAIN orbs : ~CapturedNow(o)) =>
          score' = score /\ timeLeft' <= timeLeft]_vars

\* C7 witness: a captured orb is still on screen (tappable again), its score
\* was awarded once and the last handler awarded nothing.
C7_Witness ==
  /\ isRunning
  /\ feedback = "none"
  /\ \E o \in DOMAIN orbs :
       /\ orbs[o].connected /\ orbs[o].captured /\ orbs[o].collects = 1
       /\ score \in {1, 3, 5}

\* C8: start() removes every orb that was in the play area, sets score to 0
\* and timeLeft to 60 and leaves the session running.
C8_StartResets ==
  [][StartRan =>
       /\ score' = 0
       /\ timeLeft' = 60
       /\ isRunning'
       /\ \A o \in DOMAIN orbs : OnScreen(o) => ~OnScreenAfter(o)]_vars

\* C8 witness: start() just ran, and an uncaptured orb of the session before,
\* removed by it, still has its expiry timeout armed.
C8_Witness ==
  /\ feedback = "success" /\ isRunning
  /\ score = 0 /\ timeLeft = 60
  /\ \E o \in DOMAIN orbs : ~orbs[o].connected /\ ~orbs[o].captured /\ orbs[o].expiry
  /\ \A o \in DOMAIN orbs : orbs[o].connected <=> o = orbId

\* C9: a step that captures an uncaptured orb while running adds the type's
\* score (common 1, rare 3, bonus 5) and sets timeLeft to min(60, timeLeft + 2)
\* for a bonus orb, leaving it unchanged for the other types.
C9_CaptureAward ==
  [][\A o \in DOMAIN orbs :
       (isRunning /\ CapturedNow(o)) =>
          /\ orbs[o].type = "common" => (score' = score + 1 /\ timeLeft' = timeLeft)
          /\ orbs[o].type = "rare"   => (score' = score + 3 /\ timeLeft' = timeLeft)
          /\ orbs[o].type = "bonus"  =>
               /\ score' = score + 5
               /\ timeLeft' = IF timeLeft + 2 > 60 THEN 60 ELSE timeLeft + 2
               /\ timeLeft = 50 => timeLeft' = 52
               /\ timeLeft = 59 => timeLeft' = 60]_vars

\* C9 witness: a bonus orb was just captured at timeLeft = 50.
C9_Witness ==
  /\ feedback = "heavy"
  /\ timeLeft = 52
  /\ score >= 5
  /\ \E o \in DOMAIN orbs : orbs[o].captured /\ orbs[o].connected /\ orbs[o].removal

\* C10: no orb was both collected and removed by its expiry callback; an
\* expiry callback that runs for a captured orb neither removes it nor
\* requests feedback; an orb removed by its expiry callback is off screen.
C10_CapturedLatch ==
  [][/\ \A o \in DOMAIN orbs' :
          /\ ~(orbs'[o].collects >= 1 /\ orbs'[o].expired)
          /\ orbs'[o].expired => ~orbs'[o].connected
     /\ \A o \in DOMAIN orbs :
          (orbs[o].captured /\ ExpiryRan(o)) =>
             /\ feedback' = "none"
             /\ OnScreen(o) => OnScreenAfter(o)]_vars

\* C10 witness: the expiry callback of a captured orb has run and the orb is
\* still on screen, waiting for its removal timeout.
C10_Witness ==
  \E o \in DOMAIN orbs :
    /\ orbs[o].captured /\ orbs[o].connected /\ orbs[o].removal
    /\ orbs[o].expiryFires = 1 /\ ~orbs[o].expiry
    /\ orbs[o].collects = 1 /\ ~orbs[o].expired

----------------------------------------------------------------------------
(* C11..C20 *)

\* C11: pause() changes neither score nor timeLeft nor the orbs on screen;
\* from pause() up to and including the next resume() no step changes score
\* or timeLeft (no tick fires, nothing is replayed); and outside start() and
\* captures timeLeft only ever changes by one tick, that is by exactly -1.
C11_PauseResumePreserves ==
  [][/\ (~paused /\ paused') =>
          (score' = score /\ timeLeft' = timeLeft /\ orbs' = orbs)
     /\ (paused /\ ~StartRan) => (score' = score /\ timeLeft' = timeLeft)
     /\ (~StartRan /\ timeLeft' # timeLeft /\ \A o \in DOMAIN orbs : ~CapturedNow(o)) =>
          timeLeft' = timeLeft - 1]_vars

\* C12: while the session is not running (before the first start(), or after
\* finish()), a visibility event (pause() / resume()) and a tap on an orb
\* change nothing of the session and request no feedback.
C12_NotRunningNoOps ==
  [][(~isRunning /\ (VisibilityHidden \/ VisibilityVisible \/ TapRan)) =>
       /\ UNCHANGED <<score, timeLeft, isRunning, orbId, orbs, timeouts, intervals,
                      spawnTimeout, timerInterval>>
       /\ feedback' = "none"]_vars

\* C12 witness: the session is finished, its two orbs are still on screen,
\* uncaptured, with their expiry pending, no timer is armed, and the last
\* handler (a tap or a visibility event) requested nothing.
C12_Witness ==
  /\ ~isRunning /\ finishCount = 1
  /\ feedback = "none"
  /\ timeouts = <<>> /\ intervals = {}
  /\ DOMAIN orbs = {1, 2}
  /\ \A o \in DOMAIN orbs :
       orbs[o].connected /\ ~orbs[o].captured /\ orbs[o].expiry /\ orbs[o].expiryFires = 0

\* C13: an expiry callback that finds its orb on screen and not captured
\* removes it, and requests light feedback exactly when the session is Running
\* (not Paused, not Finished) at that moment.
C13_ExpiryFeedbackIffRunning ==
  [][\A o \in DOMAIN orbs :
       (ExpiryRan(o) /\ OnScreen(o) /\ ~orbs[o].captured) =>
          /\ ~OnScreenAfter(o)
          /\ (feedback' = "light") <=> Running]_vars

\* C16: at most one tick interval and at most one spawn timeout are armed, and
\* an armed one is the one timerInterval / spawnTimeout refers to.
C16_AtMostOneTimerArmed ==
  /\ Cardinality(intervals) <= 1
  /\ Cardinality(DOMAIN timeouts) <= 1
  /\ intervals \subseteq {timerInterval}
  /\ DOMAIN timeouts \subseteq {spawnTimeout}

\* C17: an expiry or removal callback that runs for an orb already detached
\* from the play area (an orb is detached with its removal pending only when
\* a start() removed it) requests no feedback, changes neither score nor
\* timeLeft and leaves every orb on screen as it is.
C17_StaleCallbacksInert ==
  [][\A o \in DOMAIN orbs :
       (~orbs[o].connected /\ (ExpiryRan(o) \/ RemovalRan(o))) =>
          /\ feedback' = "none"
          /\ score' = score /\ timeLeft' = timeLeft
          /\ \A p \in DOMAIN orbs :
               OnScreen(p) => (OnScreenAfter(p) /\ orbs'[p] = orbs[p])]_vars

\* C17 witness: orb 1, captured in the session before, was removed by the
\* start() that created orb 2; its expiry callback has since run (the last
\* handler requested nothing) while its removal callback is still pending;
\* the new session is untouched: orb 2 on screen, score 0, timeLeft 60.
C17_Witness ==
  /\ isRunning /\ ~paused /\ feedback = "none"
  /\ score = 0 /\ timeLeft = 60
  /\ DOMAIN orbs = {1, 2}
  /\ ~orbs[1].connected /\ orbs[1].captured /\ orbs[1].removal
  /\ ~orbs[1].expiry /\ orbs[1].expiryFires = 1
  /\ orbs[2].connected /\ ~orbs[2].captured /\ orbs[2].expiry
  /\ spawnTimeout = 4 /\ timerInterval = 5

\* C18: every orb on screen eventually leaves the play area; and an orb
\* leaves it only by a start(), by its removal callback if it is captured, or
\* by its expiry callback if it is not.
C18_EveryOrbRemoved ==
  /\ \A o \in 1..MaxOrbs : OnScreen(o) ~> ~OnScreen(o)
  /\ [][\A o \in DOMAIN orbs :
          (OnScreen(o) /\ ~OnScreenAfter(o) /\ ~StartRan) =>
             IF orbs[o].captured THEN RemovalRan(o) ELSE ExpiryRan(o)]_vars

\* C18 witness: the session is finished and both orbs it spawned have left
\* the play area with no callback of theirs pending.
C18_Witness ==
  /\ ~isRunning /\ finishCount >= 1
  /\ orbId >= 2
  /\ DOMAIN orbs = {}

\* the number a text of decimal digits denotes; -1 if it is not such a text
RECURSIVE TextValue(_)
TextValue(text) ==
  IF text = <<>> \/ \E i \in 1..Len(text) : \A d \in 1..10 : DIGITS[d] # text[i]
  THEN -1
  ELSE LET last == (CHOOSE d \in 1..10 : DIGITS[d] = text[Len(text)]) - 1 IN
       IF Len(text) = 1 THEN last
       ELSE 10 * TextValue(SubSeq(text, 1, Len(text) - 1)) + last

\* C19: once start() has run (it creates the first orb), the score shown is
\* score and the time shown is timeLeft, or 0 when timeLeft is negative; the
\* time shown is a number and never negative.
C19_DisplayInSync ==
  orbId >= 1 =>
    /\ TextValue(scoreEl) = score
    /\ TextValue(timerEl) = (IF timeLeft < 0 THEN 0 ELSE timeLeft)
    /\ TextValue(timerEl) >= 0

\* C19 witness: the second bonus orb was just captured, after ticks: the
\* display shows the score 10 and the time 58.
C19_Witness ==
  /\ feedback = "heavy"
  /\ score = 10 /\ scoreEl = <<"1", "0">>
  /\ timeLeft = 58 /\ timerEl = <<"5", "8">>

\* the orbs in the play area
OrbsOnScreen == {o \in DOMAIN orbs : orbs[o].connected}

\* The step is the first spawn callback of the session the page load started,
\* with score 0 and no tap taken: the timeout start() armed (handle 2) is
\* still the one in use, so no pause, resume or restart came in between.
FirstSpawnRan ==
  /\ isRunning /\ spawnTimeout = 2 /\ SpawnFire(2)
  /\ score = 0
  /\ \A o \in DOMAIN orbs : ~orbs[o].captured

\* C14 (as stated): when the first spawn callback after start() has run, with
\* score 0 and no taps, exactly one orb is in the play area, and the callback
\* ran 1200 ms after start() give or take 110 ms.
C14_OneOrbAfterOneInterval ==
  [][FirstSpawnRan =>
       /\ Cardinality(OrbsOnScreen') = 1
       /\ clock'.now \in 1090..1310]_vars

\* C14 (amended): up to that callback exactly one orb is in the play area, the
\* one start() spawned at once; the callback runs 1200 ms after start() give
\* or take 110 ms, before that orb can expire, and leaves exactly two orbs.
C14_TwoOrbsAfterOneInterval ==
  [][FirstSpawnRan =>
       /\ OrbsOnScreen = {1}
       /\ OrbsOnScreen' = {1, 2}
       /\ clock'.now \in 1090..1310]_vars

\* C14 witness: the first spawn callback has run between 1090 and 1310 ms
\* after the page-load start(), after one tick and nothing else: orbs 1 and 2
\* are on screen, uncaptured.
C14_Witness ==
  /\ isRunning /\ ~paused /\ score = 0 /\ timeLeft = 59
  /\ spawnTimeout = 4 /\ timerInterval = 3
  /\ clock.now \in 1090..1310
  /\ OrbsOnScreen = {1, 2}
  /\ \A o \in OrbsOnScreen : ~orbs[o].captured /\ orbs[o].expiry

\* C15: a spawn callback that finds the session running creates exactly one
\* orb; every run of the spawn loop arms exactly one new timeout, due after
\* max(320, I + jitter) ms with jitter in [-110, 110) and I = 1200, 900, 750,
\* 600 for a score of 0..19, 20..39, 40..54, 55 and more; the delay is at
\* least 320 and, for the same jitter, no longer than at any lower score.
C15_SpawnDelay ==
  [][/\ (isRunning /\ SpawnRan) =>
          (orbId' = orbId + 1 /\ OrbsOnScreen' = OrbsOnScreen \cup {orbId + 1})
     /\ orbId' > orbId =>
          LET h == spawnTimeout'
              d == clock'.spawn[h] - clock'.now
              I == IF score' >= 55 THEN 600
                   ELSE IF score' >= 40 THEN 750
                   ELSE IF score' >= 20 THEN 900
                   ELSE 1200
          IN /\ (DOMAIN timeouts') \ (DOMAIN timeouts) = {h}
             /\ (IF I - 110 > 320 THEN I - 110 ELSE 320) <= d
             /\ d <= (IF I + 109 > 320 THEN I + 109 ELSE 320)
             /\ d >= 320
             /\ \A s \in 0..score' : spawnDelay(score', 0) <= spawnDelay(s, 0)]_vars

\* C15 witness: the spawn callback of a session with score 55 has run 490 ms
\* (600 - 110) after the loop's run before and armed the next run 709 ms
\* (600 + 109) later.
C15_Witness ==
  /\ isRunning /\ score = 55
  /\ orbId = 2 /\ spawnTimeout = 4
  /\ clock.now = 490
  /\ clock.spawn[4] = 490 + 709

====
